---- MODULE Spec2Model ----
(***************************************************************************)
(* A model of the charm reading library: the manifest parser, the archive  *)
(* reader (readCharmArchive and the CharmArchive methods), the top-level   *)
(* ReadCharm dispatch, the series reconciliation helpers and the resource  *)
(* metadata validation.                                                    *)
(*                                                                         *)
(* The library is synchronous and call-and-return.  Every exported         *)
(* operation is one action: from the idle state a caller picks an          *)
(* operation and its input, the action computes the whole call (result,    *)
(* error or panic, and the trace of handle opens and closes the call       *)
(* performed), and Return brings the caller back to idle.                  *)
(*                                                                         *)
(* Go values are modelled as follows.  A Go string whose content matters   *)
(* is a sequence of atoms (a path "a/b" is <<"a", "/", "b">>); a string    *)
(* that is only compared is a TLA+ string.  A slice is a record            *)
(* [isNil, elems], so that a nil slice and an empty non-nil slice differ.  *)
(* A *Manifest is a record [isNil, Bases]; reading a field through a nil   *)
(* pointer is a run-time panic and is modelled as the outcome "panic".     *)
(***************************************************************************)
EXTENDS Integers, Sequences, FiniteSets, TLC

VARIABLES pc, op, arg, ret, openFiles

vars == <<pc, op, arg, ret, openFiles>>

-----------------------------------------------------------------------------
(* Bounds of the model.                                                    *)

\* Longest "bases" list of a manifest document handed to ReadManifest.
MaxRawBases == 2
\* Longest list of bases of a loaded manifest handed to ComputedSeries.
MaxBases == 3
\* Longest legacy series list / supported series list.
MaxSeries == 2
\* Longest resource path, in atoms.
MaxPath == 2
\* Most entries of one container, other than manifest.yaml, that are present
\* and cannot be opened or parsed.
MaxFaulty == 1
\* Cap on the number of container files left open by earlier calls.
MaxLeaked == 1

-----------------------------------------------------------------------------
(* Small helpers.                                                          *)

\* All sequences over S of length 0..n.
SeqsUpTo(S, n) == UNION { [1..k -> S] : k \in 0..n }

NoErr == "nil"

NilSlice == [isNil |-> TRUE, elems |-> <<>>]
Slice(s) == [isNil |-> FALSE, elems |-> s]

\* Go's append: appending to a nil slice yields a non-nil slice.
GoAppend(sl, x) == [isNil |-> FALSE, elems |-> Append(sl.elems, x)]

\* Go's len(): the length of a nil slice is 0.
GoLen(sl) == Len(sl.elems)

-----------------------------------------------------------------------------
(* The manifest document and its parser.                                   *)

\* A key that the YAML mapping does not have.
Omitted == "<omitted>"

\* systems.Ubuntu, systems.CentOS, ... : the closed enumeration of baseSchema
\* (two of its six members are enough to tell bases apart).
KnownNames == {"ubuntu", "centos"}
RawNames == KnownNames \cup {Omitted, "plan9"}

\* Channel strings: two that channel.Parse accepts, one that it rejects.
GoodChannels == {"stable", "edge"}
RawChannels == GoodChannels \cup {Omitted, "bad channel"}

RawBase == [name : RawNames, channel : RawChannels]

\* The zero systems.Base.
ZeroBase == [Name |-> "", Channel |-> ""]

NilManifest == [isNil |-> TRUE, Bases |-> NilSlice]
MkManifest(bases) == [isNil |-> FALSE, Bases |-> bases]

\* NewManifest returns &Manifest{}: a manifest whose Bases is the nil slice.
NewManifest == MkManifest(NilSlice)

\* The documents ReadManifest is given:
\*   kind "empty"  - zero bytes (or only comments): yaml.Unmarshal decodes nothing;
\*   kind "syntax" - not YAML, or not a mapping: yaml.Unmarshal fails;
\*   kind "map"    - a mapping; its "bases" value is a list (isList) or is
\*                   missing / null / a scalar (not isList).
EmptyDoc == [kind |-> "empty", isList |-> FALSE, items |-> <<>>]
SyntaxErrDoc == [kind |-> "syntax", isList |-> FALSE, items |-> <<>>]
NoBasesDoc == [kind |-> "map", isList |-> FALSE, items |-> <<>>]
BasesDoc(items) == [kind |-> "map", isList |-> TRUE, items |-> items]

ManifestDocs(n) ==
    {EmptyDoc, SyntaxErrDoc, NoBasesDoc} \cup { BasesDoc(s) : s \in SeqsUpTo(RawBase, n) }

\* errors.Annotatef(err, ...): annotating the nil error yields the nil error.
Annotatef(err, msg) == IF err = NoErr THEN NoErr ELSE msg

\* errors.Trace(err): keeps the error.
Trace(err) == err

\* channel.Parse: the parsed channel, or an error.
ChannelParse(s) ==
    IF s \in GoodChannels THEN [ch |-> s, err |-> NoErr]
    ELSE [ch |-> "", err |-> "channel not valid"]

\* systems.Base.Validate: a base needs a name and a channel.
BaseValidate(b) ==
    IF b.Name = "" THEN "base without name"
    ELSE IF b.Channel = "" THEN "base without channel"
    ELSE NoErr

\* baseSchema coerces one list element: "name" must be one of the constants
\* of the enumeration when it is present; a missing key is omitted.
baseSchemaCoerce(rb) ==
    IF rb.name # Omitted /\ rb.name \notin KnownNames THEN "unexpected name" ELSE NoErr

\* schema.List(baseSchema).Coerce(raw["bases"]): fails for anything that is
\* not a list and for a list with an element the schema rejects; otherwise
\* it returns a non-nil []interface{}, of length zero for an empty list.
ListCoerce(doc) ==
    IF ~doc.isList THEN [v |-> <<>>, err |-> "expected list"]
    ELSE IF \E i \in 1..Len(doc.items) : baseSchemaCoerce(doc.items[i]) # NoErr
         THEN [v |-> <<>>, err |-> "unexpected name"]
         ELSE [v |-> doc.items, err |-> NoErr]

\* One iteration of parseBases' loop: builds the base of element v.
parseBase(v) ==
    LET name == IF v.name # Omitted THEN v.name ELSE ""
        chn  == IF v.channel # Omitted THEN ChannelParse(v.channel)
                ELSE [ch |-> "", err |-> NoErr]
        base == [Name |-> name, Channel |-> chn.ch]
    IN  IF chn.err # NoErr THEN [base |-> ZeroBase, err |-> "parsing channel"]
        ELSE IF BaseValidate(base) # NoErr
             THEN [base |-> ZeroBase, err |-> Trace(BaseValidate(base))]
             ELSE [base |-> base, err |-> NoErr]

\* The loop of parseBases over input[i..], with res the slice built so far.
RECURSIVE parseBasesFrom(_, _, _)
parseBasesFrom(input, i, res) ==
    IF i > Len(input) THEN [bases |-> res, err |-> NoErr]
    ELSE LET p == parseBase(input[i])
         IN  IF p.err # NoErr THEN [bases |-> NilSlice, err |-> p.err]
             ELSE parseBasesFrom(input, i + 1, GoAppend(res, p.base))

\* parseBases as UnmarshalYAML calls it: input is the non-nil []interface{}
\* that Coerce returned, so the "input == nil" return is not taken; res
\* starts as the nil slice and stays nil when the loop appends nothing.
parseBases(input) == parseBasesFrom(input, 1, NilSlice)

\* Manifest.UnmarshalYAML on a mapping.
UnmarshalYAML(doc) ==
    LET c == ListCoerce(doc)
    IN  IF c.err # NoErr THEN [manifest |-> NilManifest, err |-> Annotatef(c.err, "coerce")]
        ELSE LET p == parseBases(c.v)
             IN  IF p.err # NoErr THEN [manifest |-> NilManifest, err |-> p.err]
                 ELSE [manifest |-> MkManifest(p.bases), err |-> NoErr]

\* yaml.Unmarshal(data, &manifest) with manifest a nil *Manifest: an empty
\* document leaves the pointer nil and reports no error.
yamlUnmarshal(doc) ==
    IF doc.kind = "empty" THEN [manifest |-> NilManifest, err |-> NoErr]
    ELSE IF doc.kind = "syntax" THEN [manifest |-> NilManifest, err |-> "yaml: cannot unmarshal"]
    ELSE UnmarshalYAML(doc)

\* ReadManifest.  In the "manifest == nil" branch the err that is annotated
\* is the outer one, left nil by ioutil.ReadAll (the inner err is scoped to
\* the if statement above it).
ReadManifest(doc) ==
    LET readAllErr == NoErr
        u == yamlUnmarshal(doc)
    IN  IF u.err # NoErr
        THEN [manifest |-> NilManifest, err |-> Annotatef(u.err, "manifest")]
        ELSE IF u.manifest.isNil
             THEN [manifest |-> NilManifest,
                   err |-> Annotatef(readAllErr, "invalid base in manifest")]
             ELSE [manifest |-> u.manifest, err |-> NoErr]

-----------------------------------------------------------------------------
(* Containers, openers and handles.                                        *)

\* The entries readCharmArchive looks for.
EntryNames == {"metadata.yaml", "manifest.yaml", "config.yaml", "metrics.yaml",
               "actions.yaml", "revision", "lxd-profile.yaml", "version"}

\* What a container holds under a name: nothing ("absent"), an entry whose
\* Open fails ("unopenable"), an entry its parser rejects ("bad"), or an
\* entry that parses ("ok").
EntryStatus == {"absent", "unopenable", "bad", "ok"}

\* The manifest.yaml documents put into containers.
UbuntuStable == [name |-> "ubuntu", channel |-> "stable"]
ArchiveManifestDocs == {EmptyDoc, BasesDoc(<<>>), BasesDoc(<<UbuntuStable>>)}

\* Other paths a container may hold.
ExtraPaths == {".", "hooks/install"}

\* The manifest.yaml entry of a container: its status and its document.
ManifestEntries ==
    {<<"absent", EmptyDoc>>, <<"unopenable", EmptyDoc>>, <<"bad", SyntaxErrDoc>>}
    \cup { <<"ok", d>> : d \in ArchiveManifestDocs }

\* A container: the status of each named entry, the document of its
\* manifest.yaml entry, and the other paths in it.  Names are unique, so
\* the headers zipr.File are a function of the name.
MkArchive(f, m, x) ==
    [files |-> [n \in EntryNames |-> IF n = "manifest.yaml" THEN m[1] ELSE f[n]],
     mdoc |-> m[2], extra |-> x]

\* The statuses of the entries other than manifest.yaml, with at most n
\* entries that are present and cannot be opened or parsed.
EntryFiles(n) ==
    { f \in [EntryNames \ {"manifest.yaml"} -> EntryStatus] :
        Cardinality({ e \in DOMAIN f : f[e] \in {"unopenable", "bad"} }) <= n }

\* The containers handed to readCharmArchive.
Archives ==
    { MkArchive(f, m, {}) : f \in EntryFiles(MaxFaulty), m \in ManifestEntries }

\* A handle event of a call: handle h was opened or closed.
Ev(e, h) == [ev |-> e, h |-> h]

Count(tr, e, h) == Cardinality({ i \in 1..Len(tr) : tr[i] = Ev(e, h) })

\* zipReadCloser.Close: closes the zip reader's Closer, which is the
\* os.File for a path opener and a no-op closer for a reader opener.
zipClose(zipr) ==
    <<Ev("close", "zip")>> \o
    (IF zipr.closer = "file" THEN <<Ev("close", "file")>> ELSE <<>>)

NoZip == [closer |-> "none", archive |-> [files |-> [n \in EntryNames |-> "absent"],
                                          mdoc |-> EmptyDoc, extra |-> {}]]

\* zipPathOpener.openZip without the f.Close() of the zip.NewReader
\* failure.
zipPathOpener_openZip_LeaksOnError(zo) ==
    IF zo.fault = "open" THEN [zipr |-> NoZip, err |-> "open failed", trace |-> <<>>]
    ELSE IF zo.fault = "stat"
    THEN [zipr |-> NoZip, err |-> "stat failed",
          trace |-> <<Ev("open", "file"), Ev("close", "file")>>]
    ELSE IF zo.fault = "zip"
    THEN [zipr |-> NoZip, err |-> "zip: not a valid zip file",
          trace |-> <<Ev("open", "file")>>]
    ELSE [zipr |-> [closer |-> "file", archive |-> zo.archive], err |-> NoErr,
          trace |-> <<Ev("open", "file"), Ev("open", "zip")>>]

\* zipPathOpener.openZip: os.Open, f.Stat, zip.NewReader; the file is
\* closed when a step after os.Open fails.
zipPathOpener_openZip(zo) ==
    IF zo.fault = "open" THEN [zipr |-> NoZip, err |-> "open failed", trace |-> <<>>]
    ELSE IF zo.fault = "stat"
    THEN [zipr |-> NoZip, err |-> "stat failed",
          trace |-> <<Ev("open", "file"), Ev("close", "file")>>]
    ELSE IF zo.fault = "zip"
    THEN [zipr |-> NoZip, err |-> "zip: not a valid zip file",
          trace |-> <<Ev("open", "file"), Ev("close", "file")>>]
    ELSE [zipr |-> [closer |-> "file", archive |-> zo.archive], err |-> NoErr,
          trace |-> <<Ev("open", "file"), Ev("open", "zip")>>]

\* zipReaderOpener.openZip: zip.NewReader over the caller's reader; the
\* handle's Closer is ioutil.NopCloser.
zipReaderOpener_openZip(zo) ==
    IF zo.fault # "none"
    THEN [zipr |-> NoZip, err |-> "zip: not a valid zip file", trace |-> <<>>]
    ELSE [zipr |-> [closer |-> "nop", archive |-> zo.archive], err |-> NoErr,
          trace |-> <<Ev("open", "zip")>>]

\* zopen.openZip(), dispatched on the opener's type.
openZip(zo) ==
    IF zo.kind = "path" THEN zipPathOpener_openZip(zo) ELSE zipReaderOpener_openZip(zo)

\* The openers: by path (newZipOpenerFromPath) or over a reader
\* (newZipOpenerFromReader), with the step of openZip that fails, if any.
ZipOpeners(archives) ==
    { [kind |-> k, fault |-> "none", archive |-> a] : k \in {"path", "reader"}, a \in archives }
    \cup { [kind |-> "path", fault |-> f, archive |-> NoZip.archive] :
             f \in {"open", "stat", "zip"} }
    \cup { [kind |-> "reader", fault |-> "zip", archive |-> NoZip.archive] }

NotFound(path) == <<"archive file not found", path>>
OtherErr(what, path) == <<what, path>>
NilErr == <<NoErr, "">>

\* err.(*noCharmArchiveFile)
isNoCharmArchiveFile(err) == err[1] = "archive file not found"

\* zipOpenFile: the entry named path is opened, which may fail; without
\* such an entry the error is a noCharmArchiveFile.
zipOpenFile(zipr, path) ==
    IF zipr.archive.files[path] = "absent"
    THEN [opened |-> FALSE, err |-> NotFound(path), trace |-> <<>>]
    ELSE IF zipr.archive.files[path] = "unopenable"
    THEN [opened |-> FALSE, err |-> OtherErr("open failed", path), trace |-> <<>>]
    ELSE [opened |-> TRUE, err |-> NilErr, trace |-> <<Ev("open", path)>>]

\* ReadMeta, ReadConfig, ReadMetrics, ReadActionsYaml, ReadLXDProfile,
\* ReadVersion and fmt.Fscan on an opened entry: the parsed value (named
\* after the entry) or an error.
ReadEntry(zipr, path) ==
    IF zipr.archive.files[path] = "ok"
    THEN [val |-> <<"parsed", path>>, err |-> NilErr]
    ELSE [val |-> <<"nil", path>>, err |-> OtherErr("malformed", path)]

NilVal(path) == <<"nil", path>>
DefaultVal(path) == <<"default", path>>

NilArchive == [isNil |-> TRUE]

\* b := &CharmArchive{zopen: zopen}: every other field has its zero value.
NewCharmArchive ==
    [isNil |-> FALSE, Path |-> "",
     meta |-> NilVal("metadata.yaml"), manifest |-> NilManifest,
     config |-> NilVal("config.yaml"), metrics |-> NilVal("metrics.yaml"),
     actions |-> NilVal("actions.yaml"), lxdProfile |-> NilVal("lxd-profile.yaml"),
     revision |-> <<"default", "revision">>, version |-> <<"default", "version">>]

FormatV1 == "v1"
FormatV2 == "v2"

\* CharmArchive.Format: reads a.manifest.Bases, which panics on a nil
\* manifest pointer.
Format(a) ==
    IF a.manifest.isNil THEN "panic"
    ELSE IF ~a.manifest.Bases.isNil THEN FormatV2
    ELSE FormatV1

\* The results of readCharmArchive: a return (archive, err) or a panic.
RcaReturn(b, tr) == [status |-> "ok", archive |-> b, err |-> NilErr, trace |-> tr]
RcaFail(err, tr) == [status |-> "err", archive |-> NilArchive, err |-> err, trace |-> tr]
RcaPanic(tr) ==
    [status |-> "panic", archive |-> NilArchive,
     err |-> <<"nil pointer dereference", "">>, trace |-> tr]

\* readCharmArchive, lines 161-174: the version entry.
rcaVersion(zipr, b, tr) ==
    LET o == zipOpenFile(zipr, "version")
        r == ReadEntry(zipr, "version")
    IN  IF o.err # NilErr
        THEN IF ~isNoCharmArchiveFile(o.err) THEN RcaFail(o.err, tr)
             ELSE RcaReturn(b, tr)
        ELSE IF r.err # NilErr
             THEN RcaFail(r.err, tr \o o.trace \o <<Ev("close", "version")>>)
             ELSE RcaReturn([b EXCEPT !.version = r.val],
                            tr \o o.trace \o <<Ev("close", "version")>>)

\* readCharmArchive, lines 148-159: the lxd-profile.yaml entry.
rcaLXDProfile(zipr, b, tr) ==
    LET o == zipOpenFile(zipr, "lxd-profile.yaml")
        r == ReadEntry(zipr, "lxd-profile.yaml")
    IN  IF isNoCharmArchiveFile(o.err)
        THEN rcaVersion(zipr, [b EXCEPT !.lxdProfile = DefaultVal("lxd-profile.yaml")], tr)
        ELSE IF o.err # NilErr THEN RcaFail(o.err, tr)
        ELSE IF r.err # NilErr
             THEN RcaFail(r.err, tr \o o.trace \o <<Ev("close", "lxd-profile.yaml")>>)
             ELSE rcaVersion(zipr, [b EXCEPT !.lxdProfile = r.val],
                             tr \o o.trace \o <<Ev("close", "lxd-profile.yaml")>>)

\* readCharmArchive, lines 136-146: the revision entry; its reader is not
\* closed on either path.
rcaRevision(zipr, b, tr) ==
    LET o == zipOpenFile(zipr, "revision")
        r == ReadEntry(zipr, "revision")
    IN  IF o.err # NilErr
        THEN IF ~isNoCharmArchiveFile(o.err) THEN RcaFail(o.err, tr)
             ELSE rcaLXDProfile(zipr, b, tr)
        ELSE IF r.err # NilErr
             THEN RcaFail(<<"invalid revision file", "revision">>, tr \o o.trace)
             ELSE rcaLXDProfile(zipr, [b EXCEPT !.revision = r.val], tr \o o.trace)

\* getActions: actions.yaml through the open callback; the reader's close
\* is deferred.
getActions(zipr) ==
    LET o == zipOpenFile(zipr, "actions.yaml")
        r == ReadEntry(zipr, "actions.yaml")
    IN  IF o.err = NilErr
        THEN [actions |-> r.val, err |-> r.err,
              trace |-> o.trace \o <<Ev("close", "actions.yaml")>>]
        ELSE IF ~isNoCharmArchiveFile(o.err)
        THEN [actions |-> NilVal("actions.yaml"), err |-> o.err, trace |-> <<>>]
        ELSE [actions |-> DefaultVal("actions.yaml"), err |-> NilErr, trace |-> <<>>]

\* readCharmArchive, lines 124-134: the actions.
rcaActions(zipr, b, tr) ==
    LET g == getActions(zipr)
    IN  IF g.err # NilErr THEN RcaFail(g.err, tr \o g.trace)
        ELSE rcaRevision(zipr, [b EXCEPT !.actions = g.actions], tr \o g.trace)

\* readCharmArchive, lines 113-122: the metrics.yaml entry.
rcaMetrics(zipr, b, tr) ==
    LET o == zipOpenFile(zipr, "metrics.yaml")
        r == ReadEntry(zipr, "metrics.yaml")
    IN  IF o.err = NilErr
        THEN IF r.err # NilErr
             THEN RcaFail(r.err, tr \o o.trace \o <<Ev("close", "metrics.yaml")>>)
             ELSE rcaActions(zipr, [b EXCEPT !.metrics = r.val],
                             tr \o o.trace \o <<Ev("close", "metrics.yaml")>>)
        ELSE IF ~isNoCharmArchiveFile(o.err) THEN RcaFail(o.err, tr)
        ELSE rcaActions(zipr, b, tr)

\* readCharmArchive, lines 100-111: the config.yaml entry.
rcaConfig(zipr, b, tr) ==
    LET o == zipOpenFile(zipr, "config.yaml")
        r == ReadEntry(zipr, "config.yaml")
    IN  IF isNoCharmArchiveFile(o.err)
        THEN rcaMetrics(zipr, [b EXCEPT !.config = DefaultVal("config.yaml")], tr)
        ELSE IF o.err # NilErr THEN RcaFail(o.err, tr)
        ELSE IF r.err # NilErr
             THEN RcaFail(r.err, tr \o o.trace \o <<Ev("close", "config.yaml")>>)
             ELSE rcaMetrics(zipr, [b EXCEPT !.config = r.val],
                             tr \o o.trace \o <<Ev("close", "config.yaml")>>)

\* readCharmArchive, lines 86-98: the format of the archive read so far
\* decides whether manifest.yaml is read.
rcaManifest(zipr, b, tr) ==
    LET f == Format(b)
        o == zipOpenFile(zipr, "manifest.yaml")
        m == ReadManifest(zipr.archive.mdoc)
    IN  IF f = "panic" THEN RcaPanic(tr)
        ELSE IF f # FormatV1
        THEN IF o.err # NilErr
             THEN RcaFail(<<"opening manifest file", o.err[2]>>, tr)
             ELSE IF m.err # NoErr
                  THEN RcaFail(OtherErr("malformed", "manifest.yaml"),
                               tr \o o.trace \o <<Ev("close", "manifest.yaml")>>)
                  ELSE rcaConfig(zipr, [b EXCEPT !.manifest = m.manifest],
                                 tr \o o.trace \o <<Ev("close", "manifest.yaml")>>)
        ELSE rcaConfig(zipr, b, tr)

\* rcaMeta with a missing metadata.yaml tolerated the way a missing
\* optional entry is.
rcaMeta_ToleratesMissing(zipr, b, tr) ==
    LET o == zipOpenFile(zipr, "metadata.yaml")
        r == ReadEntry(zipr, "metadata.yaml")
    IN  IF isNoCharmArchiveFile(o.err) THEN rcaManifest(zipr, b, tr)
        ELSE IF o.err # NilErr THEN RcaFail(o.err, tr)
        ELSE IF r.err # NilErr
             THEN RcaFail(r.err, tr \o o.trace \o <<Ev("close", "metadata.yaml")>>)
             ELSE rcaManifest(zipr, [b EXCEPT !.meta = r.val],
                              tr \o o.trace \o <<Ev("close", "metadata.yaml")>>)

\* readCharmArchive, lines 76-84: the metadata.yaml entry.
rcaMeta(zipr, b, tr) ==
    LET o == zipOpenFile(zipr, "metadata.yaml")
        r == ReadEntry(zipr, "metadata.yaml")
    IN  IF o.err # NilErr THEN RcaFail(o.err, tr)
        ELSE IF r.err # NilErr
             THEN RcaFail(r.err, tr \o o.trace \o <<Ev("close", "metadata.yaml")>>)
             ELSE rcaManifest(zipr, [b EXCEPT !.meta = r.val],
                              tr \o o.trace \o <<Ev("close", "metadata.yaml")>>)

\* The deferred zipr.Close() of readCharmArchive: it runs when the function
\* returns and when it panics.
rcaDeferredClose(zipr, r) == [r EXCEPT !.trace = @ \o zipClose(zipr)]

\* readCharmArchive, lines 72-175, with z the result of zopen.openZip().
rcaOpened(z) ==
    IF z.err # NoErr THEN RcaFail(<<z.err, "">>, z.trace)
    ELSE rcaDeferredClose(z.zipr, rcaMeta(z.zipr, NewCharmArchive, z.trace))

\* readCharmArchive: the container is opened, its close is deferred and
\* the entries are read in order.
readCharmArchive(zopen) == rcaOpened(openZip(zopen))

\* readCharmArchive, lines 100-175, as a block of its own: it is entered
\* with the container z open, its close deferred, and metadata.yaml read
\* and its reader closed, which is how lines 71-84 leave them.
rcaEntries(z) ==
    rcaDeferredClose(z.zipr,
        rcaConfig(z.zipr,
                  [NewCharmArchive EXCEPT !.meta = ReadEntry(z.zipr, "metadata.yaml").val],
                  z.trace \o zipOpenFile(z.zipr, "metadata.yaml").trace
                          \o <<Ev("close", "metadata.yaml")>>))

-----------------------------------------------------------------------------
(* The inventory and the expansion of an archive.                          *)

\* ziputil.Find(zipr.Reader, "*"): the path of every entry of the
\* container; the pattern "*" is well formed, so Find reports no error.
Find(zipr) ==
    [paths |-> { n \in EntryNames : zipr.archive.files[n] # "absent" }
                 \cup zipr.archive.extra,
     err |-> NoErr]

\* CharmArchive.Manifest: the set of the container's paths, with
\* "revision" added and "." removed; the container's close is deferred.
CharmArchive_Manifest(a) ==
    LET z == openZip(a.zopen)
        f == Find(z.zipr)
    IN  IF z.err # NoErr THEN [paths |-> {}, err |-> z.err, trace |-> z.trace]
        ELSE IF f.err # NoErr
        THEN [paths |-> {}, err |-> f.err, trace |-> z.trace \o zipClose(z.zipr)]
        ELSE [paths |-> (f.paths \cup {"revision"}) \ {"."}, err |-> NoErr,
              trace |-> z.trace \o zipClose(z.zipr)]

\* The step of the expansion that fails, if any: ziputil.ExtractAll, the
\* Lstat of the hooks directory in filepath.Walk (with another error than
\* "does not exist"), os.Chmod in the walk function, os.Create,
\* revFile.Write, revFile.Sync or revFile.Close.
ExpandFaults == {"none", "extract", "walk", "chmod", "create", "write", "sync", "close"}

\* The owner-execute permission bit, 0100.
OwnerExec == 64

\* Permission bits of extracted files: 0444, 0644, 0744 and 0755.
FileModes == {292, 420, 484, 493}

\* Permission bits of the file inside an extracted subdirectory of hooks.
InnerModes == {420, 493}

\* mode&0100 != 0
HasOwnerExec(mode) == (mode \div OwnerExec) % 2 = 1

\* mode|0100
WithOwnerExec(mode) == IF HasOwnerExec(mode) THEN mode ELSE mode + OwnerExec

\* The names an entry of the hooks directory can have, in the lexical order
\* in which filepath.Walk visits them.
HookDirNames == <<"README", "install", "start">>

\* a.meta.Hooks(): the declared hook names.
HookNameSets == {{"install"}, {"install", "start"}}

\* An entry of the hooks directory: missing, a regular file with its
\* permission bits, or a directory holding one file named "install" whose
\* permission bits are inner.
NoNode == [kind |-> "none", mode |-> 0, inner |-> 0]
FileNode(mode) == [kind |-> "file", mode |-> mode, inner |-> 0]
DirNode(inner) == [kind |-> "dir", mode |-> 493, inner |-> inner]
HookNodes ==
    {NoNode} \cup { FileNode(m) : m \in FileModes } \cup { DirNode(m) : m \in InnerModes }

\* dir/hooks after the extraction: missing, a regular file, or a directory
\* with its entries.
NoEntries == [i \in 1..Len(HookDirNames) |-> NoNode]
AbsentTree == [kind |-> "absent", entries |-> NoEntries]
FileTree == [kind |-> "file", entries |-> NoEntries]
DirTree(entries) == [kind |-> "dir", entries |-> entries]
HookTrees ==
    {AbsentTree, FileTree}
        \cup { DirTree(e) : e \in [1..Len(HookDirNames) -> HookNodes] }

\* A walk function that does not skip the subdirectories of hooksDir.
fixHookFunc_NoSkipDir(isRoot, name, node, hookNames, fault) ==
    IF name \in hookNames /\ ~HasOwnerExec(node.mode)
    THEN IF fault = "chmod" THEN [node |-> node, err |-> "chmod failed"]
         ELSE [node |-> [node EXCEPT !.mode = WithOwnerExec(node.mode)], err |-> NoErr]
    ELSE [node |-> node, err |-> NoErr]

\* The walk function returned by fixHookFunc, called on a path that Lstat
\* could read: a directory other than hooksDir is skipped; a path whose
\* base name is a declared hook and whose owner-execute bit is clear is
\* changed to mode|0100, and the result of os.Chmod is returned.
fixHookFunc(isRoot, name, node, hookNames, fault) ==
    IF ~isRoot /\ node.kind = "dir" THEN [node |-> node, err |-> "SkipDir"]
    ELSE IF name \in hookNames /\ ~HasOwnerExec(node.mode)
    THEN IF fault = "chmod" THEN [node |-> node, err |-> "chmod failed"]
         ELSE [node |-> [node EXCEPT !.mode = WithOwnerExec(node.mode)], err |-> NoErr]
    ELSE [node |-> node, err |-> NoErr]

\* filepath.Walk on the file inside a subdirectory of hooks, reached only
\* when the walk function did not skip the subdirectory.
walkInner(node, hookNames, fault) ==
    LET r == fixHookFunc(FALSE, "install", FileNode(node.inner), hookNames, fault)
    IN  [node |-> [node EXCEPT !.inner = r.node.mode], err |-> r.err]

\* filepath.Walk on one entry of the hooks directory: the walk function is
\* called on it; a directory is descended unless the function returned
\* SkipDir, which is not reported as an error.
walkEntry(name, node, hookNames, fault) ==
    LET r == fixHookFunc(FALSE, name, node, hookNames, fault)
    IN  IF r.err = "SkipDir" THEN [node |-> node, err |-> NoErr]
        ELSE IF r.err # NoErr THEN r
        ELSE IF r.node.kind = "dir" THEN walkInner(r.node, hookNames, fault)
        ELSE r

\* filepath.Walk on the entries of the hooks directory from the i-th on, in
\* lexical order; the first error stops the walk.
RECURSIVE walkEntries(_, _, _, _)
walkEntries(entries, i, hookNames, fault) ==
    IF i > Len(HookDirNames) THEN [entries |-> entries, err |-> NoErr]
    ELSE IF entries[i].kind = "none" THEN walkEntries(entries, i + 1, hookNames, fault)
    ELSE LET r == walkEntry(HookDirNames[i], entries[i], hookNames, fault)
         IN  IF r.err # NoErr THEN [entries |-> [entries EXCEPT ![i] = r.node], err |-> r.err]
             ELSE walkEntries([entries EXCEPT ![i] = r.node], i + 1, hookNames, fault)

\* The error of Lstat on a path that does not exist; os.IsNotExist holds
\* of it alone.
ErrNotExist == "no such file or directory"

\* filepath.Walk(hooksDir, fixHook): an error of the first Lstat is handed
\* to the walk function, which returns it; otherwise the function is called
\* on hooksDir itself and then on its entries.
Walk(tree, hookNames, fault) ==
    IF fault = "walk" THEN [tree |-> tree, err |-> "walk failed"]
    ELSE IF tree.kind = "absent" THEN [tree |-> tree, err |-> ErrNotExist]
    ELSE LET r == fixHookFunc(TRUE, "hooks", [kind |-> tree.kind, mode |-> 493, inner |-> 0],
                              hookNames, fault)
             w == walkEntries(tree.entries, 1, hookNames, fault)
         IN  IF r.err # NoErr THEN [tree |-> tree, err |-> r.err]
             ELSE IF tree.kind = "file" THEN [tree |-> tree, err |-> NoErr]
             ELSE [tree |-> [tree EXCEPT !.entries = w.entries], err |-> w.err]

\* CharmArchive.ExpandTo, after the hooks were fixed: the steps that write
\* the revision file, in order, each returning its error.  The revision
\* file is closed only by the last step.
expandSteps(fault) ==
    IF fault = "create" THEN [err |-> "create failed", trace |-> <<>>]
    ELSE IF fault = "write"
    THEN [err |-> "write failed", trace |-> <<Ev("open", "revFile")>>]
    ELSE IF fault = "sync"
    THEN [err |-> "sync failed", trace |-> <<Ev("open", "revFile")>>]
    ELSE IF fault = "close"
    THEN [err |-> "close failed", trace |-> <<Ev("open", "revFile"), Ev("close", "revFile")>>]
    ELSE [err |-> NoErr, trace |-> <<Ev("open", "revFile"), Ev("close", "revFile")>>]

\* CharmArchive.ExpandTo, after the walk of the hooks directory returned w:
\* an error of the walk is returned unless os.IsNotExist holds of it.
expandWalked(z, w, fault) ==
    LET s == expandSteps(fault)
    IN  IF w.err # NoErr /\ w.err # ErrNotExist
        THEN [err |-> w.err, trace |-> z.trace \o zipClose(z.zipr), tree |-> w.tree]
        ELSE [err |-> s.err, trace |-> z.trace \o s.trace \o zipClose(z.zipr),
              tree |-> w.tree]

\* CharmArchive.ExpandTo: the container is opened and its close deferred;
\* tree is dir/hooks as ziputil.ExtractAll leaves it.
ExpandTo(a, fault, tree) ==
    LET z == openZip(a.zopen)
    IN  IF z.err # NoErr THEN [err |-> z.err, trace |-> z.trace, tree |-> tree]
        ELSE IF fault = "extract"
        THEN [err |-> "extract failed", trace |-> z.trace \o zipClose(z.zipr),
              tree |-> tree]
        ELSE expandWalked(z, Walk(tree, a.hooks, fault), fault)

-----------------------------------------------------------------------------
(* Series and bases.                                                       *)

SeriesNames == {"bionic", "focal", "xenial"}

\* systems.Base.String: the canonical string of a base, its name and its
\* channel joined by "/" (the name alone without a channel).
BaseString(b) == IF b.Channel = "" THEN <<b.Name>> ELSE <<b.Name, "/", b.Channel>>

\* A legacy series name as a Go string.
SeriesString(s) == <<s>>

\* The loop of ComputedSeries without seriesSet.Add: no string is ever
\* found in the set.
RECURSIVE uniqueSeriesFrom_NoAdd(_, _, _, _)
uniqueSeriesFrom_NoAdd(bases, i, seriesSet, seriesSlice) ==
    IF i > Len(bases) THEN seriesSlice
    ELSE LET series == BaseString(bases[i])
         IN  IF series \notin seriesSet
             THEN uniqueSeriesFrom_NoAdd(bases, i + 1, seriesSet,
                                         GoAppend(seriesSlice, series))
             ELSE uniqueSeriesFrom_NoAdd(bases, i + 1, seriesSet, seriesSlice)

\* The loop of ComputedSeries over bases[i..]: seriesSlice is the output so
\* far and seriesSet the strings seen so far.
RECURSIVE uniqueSeriesFrom(_, _, _, _)
uniqueSeriesFrom(bases, i, seriesSet, seriesSlice) ==
    IF i > Len(bases) THEN seriesSlice
    ELSE LET series == BaseString(bases[i])
         IN  IF series \notin seriesSet
             THEN uniqueSeriesFrom(bases, i + 1, seriesSet \cup {series},
                                   GoAppend(seriesSlice, series))
             ELSE uniqueSeriesFrom(bases, i + 1, seriesSet, seriesSlice)

\* CharmArchive.ComputedSeries.
CharmArchive_ComputedSeries(a) ==
    IF Format(a) = "panic" THEN [status |-> "panic", series |-> NilSlice]
    ELSE IF Format(a) = FormatV1 THEN [status |-> "ok", series |-> a.meta.Series]
    ELSE [status |-> "ok",
          series |-> uniqueSeriesFrom(a.manifest.Bases.elems, 1, {}, NilSlice)]

\* ComputedSeries(c), over the Charm interface.
ComputedSeries(c) ==
    IF c.manifest.isNil THEN [status |-> "panic", series |-> NilSlice]
    ELSE IF GoLen(c.manifest.Bases) = 0 THEN [status |-> "ok", series |-> c.meta.Series]
    ELSE [status |-> "ok",
          series |-> uniqueSeriesFrom(c.manifest.Bases.elems, 1, {}, NilSlice)]

\* SeriesForCharm returning a non-empty request without looking for it in
\* the supported series.
SeriesForCharm_Unchecked(requestedSeries, supportedSeries) ==
    IF requestedSeries = ""
    THEN IF GoLen(supportedSeries) = 0
         THEN [series |-> "", err |-> "errMissingSeries",
               errRequested |-> "", errSupported |-> NilSlice]
         ELSE [series |-> supportedSeries.elems[1], err |-> NoErr,
               errRequested |-> "", errSupported |-> NilSlice]
    ELSE [series |-> requestedSeries, err |-> NoErr,
          errRequested |-> "", errSupported |-> NilSlice]

\* SeriesForCharm.
SeriesForCharm(requestedSeries, supportedSeries) ==
    IF GoLen(supportedSeries) = 0
    THEN IF requestedSeries = ""
         THEN [series |-> "", err |-> "errMissingSeries",
               errRequested |-> "", errSupported |-> NilSlice]
         ELSE [series |-> requestedSeries, err |-> NoErr,
               errRequested |-> "", errSupported |-> NilSlice]
    ELSE IF requestedSeries = ""
    THEN [series |-> supportedSeries.elems[1], err |-> NoErr,
          errRequested |-> "", errSupported |-> NilSlice]
    ELSE IF \E i \in 1..Len(supportedSeries.elems) : supportedSeries.elems[i] = requestedSeries
    THEN [series |-> requestedSeries, err |-> NoErr,
          errRequested |-> "", errSupported |-> NilSlice]
    ELSE [series |-> "", err |-> "unsupportedSeriesError",
          errRequested |-> requestedSeries, errSupported |-> supportedSeries]

-----------------------------------------------------------------------------
(* Resource metadata.                                                      *)

\* The resource types: the zero value, the two recognised types and a
\* value outside the enumeration.
TypeUnknown == "typeUnknown"
TypeFile == "file"
TypeContainerImage == "oci-image"
ResourceTypes == {TypeUnknown, TypeFile, TypeContainerImage, "Type(99)"}

\* Type.Validate: the type is one of the recognised ones.
Type_Validate(t) ==
    IF t \in {TypeFile, TypeContainerImage} THEN NoErr ELSE "unsupported resource type"

\* strings.Contains(path, "/")
ContainsSlash(path) == \E i \in 1..Len(path) : path[i] = "/"

\* Meta.Validate with the "/" check applied to every resource type.
Meta_Validate_SlashForAllTypes(meta) ==
    IF meta.Name = "" THEN "resource missing name"
    ELSE IF meta.Type = TypeUnknown THEN "resource missing type"
    ELSE IF Type_Validate(meta.Type) # NoErr THEN "invalid resource type"
    ELSE IF meta.Path = <<>> THEN "resource missing filename"
    ELSE IF ContainsSlash(meta.Path) THEN "filename cannot contain /"
    ELSE NoErr

\* resource Meta.Validate: the not-valid error of the first failing check.
Meta_Validate(meta) ==
    IF meta.Name = "" THEN "resource missing name"
    ELSE IF meta.Type = TypeUnknown THEN "resource missing type"
    ELSE IF Type_Validate(meta.Type) # NoErr THEN "invalid resource type"
    ELSE IF meta.Path = <<>> THEN "resource missing filename"
    ELSE IF meta.Type = TypeFile /\ ContainsSlash(meta.Path)
    THEN "filename cannot contain /"
    ELSE NoErr

-----------------------------------------------------------------------------
(* The top-level dispatch.                                                 *)

\* ReadCharmArchive, lines 43-47, with r the result of readCharmArchive:
\* the path is recorded in the archive that was read.
rcaSetPath(r) == IF r.status = "ok" THEN [r EXCEPT !.archive.Path = "path"] ELSE r

\* ReadCharmArchive: readCharmArchive through a path opener.
ReadCharmArchive(zo) == rcaSetPath(readCharmArchive(zo))

\* ReadCharmDir reads the same entries from a directory: it fails, or it
\* returns a charm with its metadata and its manifest.
DirCharm(m) ==
    [isNil |-> FALSE, Path |-> "dir", meta |-> <<"parsed", "metadata.yaml">>, manifest |-> m]

ReadCharmDirResults ==
    { [status |-> "err", archive |-> NilArchive, err |-> <<"read failed", "dir">>,
       trace |-> <<>>] }
    \cup { [status |-> "ok", archive |-> DirCharm(m), err |-> NilErr, trace |-> <<>>] :
              m \in {NewManifest, MkManifest(Slice(<<[Name |-> "ubuntu", Channel |-> "stable"]>>))} }

\* Meta.Check(format): the metadata passes the check of the format or not.
Meta_Check(check, format) == check[format]

\* The charm ReadCharm returns when it returns no charm.
ReadCharmNil(status, err, tr) ==
    [status |-> status, charm |-> NilArchive, err |-> err, format |-> "none", trace |-> tr]

\* ReadCharm, lines 161-172, with r the result of the reader: the format
\* from the number of bases, then the check of the metadata, whose result
\* is returned next to the charm.
readCharmCheck(p, r) ==
    IF r.status = "panic" THEN ReadCharmNil("panic", r.err, r.trace)
    ELSE IF r.err # NilErr THEN ReadCharmNil("ok", r.err, r.trace)
    ELSE IF r.archive.manifest.isNil
    THEN ReadCharmNil("panic", <<"nil pointer dereference", "">>, r.trace)
    ELSE IF GoLen(r.archive.manifest.Bases) = 0
    THEN [status |-> "ok", charm |-> r.archive, err |-> <<Meta_Check(p.check, FormatV1), "">>,
          format |-> FormatV1, trace |-> r.trace]
    ELSE [status |-> "ok", charm |-> r.archive, err |-> <<Meta_Check(p.check, FormatV2), "">>,
          format |-> FormatV2, trace |-> r.trace]

\* ReadCharm: os.Stat, then the directory reader or the archive reader.
ReadCharm(p) ==
    IF p.stat = "err" THEN ReadCharmNil("ok", <<"stat failed", "">>, <<>>)
    ELSE IF p.stat = "dir" THEN readCharmCheck(p, p.dir)
    ELSE readCharmCheck(p, ReadCharmArchive(p.zopen))

-----------------------------------------------------------------------------
(* The inputs of the calls.                                                *)

\* The manifest of a charm as the manifest.yaml of its source gives it:
\* none when the source has no manifest document (the field keeps its nil
\* zero value), and what ReadManifest returns otherwise.
LoadManifest(src) ==
    IF src.present THEN ReadManifest(src.doc).manifest ELSE NilManifest

\* The sources whose manifest, if any, is read without error.
ManifestSources ==
    { [present |-> FALSE, doc |-> EmptyDoc] }
    \cup { [present |-> TRUE, doc |-> d] :
             d \in { x \in ManifestDocs(MaxRawBases) : ReadManifest(x).err = NoErr } }

\* The bases a manifest document can declare without a parse error.
ValidRawBases == [name : KnownNames, channel : GoodChannels]

\* The manifests ReadManifest loads from documents of up to n bases.
LoadedManifests(n) ==
    { ReadManifest(BasesDoc(s)).manifest : s \in SeqsUpTo(ValidRawBases, n) }

\* The legacy series lists of a metadata document.
SeriesLists(n) ==
    {NilSlice} \cup { Slice(s) : s \in SeqsUpTo({ SeriesString(x) : x \in SeriesNames }, n) \ {<<>>} }

\* The charms whose series are computed.
SeriesCharms ==
    { [NewCharmArchive EXCEPT !.meta = [Series |-> ss], !.manifest = m] :
        ss \in SeriesLists(MaxSeries), m \in LoadedManifests(MaxBases) }

\* The containers on which lines 100-175 of readCharmArchive are run: their
\* metadata.yaml is readable and they hold no manifest.yaml.
EntryArchives ==
    { a \in Archives : a.files["metadata.yaml"] = "ok" /\ a.files["manifest.yaml"] = "absent" }

\* The containers whose inventory is listed and that are expanded.
InventoryArchives ==
    { MkArchive([n \in EntryNames \ {"manifest.yaml"} |->
                    IF n = "revision" THEN r ELSE IF n = "config.yaml" THEN c ELSE "ok"],
                <<"absent", EmptyDoc>>, x) :
        r \in {"absent", "ok"}, c \in {"absent", "ok"}, x \in SUBSET ExtraPaths }

\* The containers ReadCharm is pointed at.
CharmArchives ==
    { MkArchive([n \in EntryNames \ {"manifest.yaml"} |->
                    IF n = "metadata.yaml" THEN md ELSE "ok"], m, {}) :
        md \in {"absent", "bad", "ok"}, m \in ManifestEntries }

PathOpener(a) == [kind |-> "path", fault |-> "none", archive |-> a]

\* dir/hooks after the extraction of a container into a directory that did
\* not exist: the file of the entry "hooks/install", extracted with mode
\* 0644, or nothing.
ExtractedTree(archive) ==
    IF "hooks/install" \in archive.extra
    THEN DirTree([i \in 1..Len(HookDirNames) |->
                     IF HookDirNames[i] = "install" THEN FileNode(420) ELSE NoNode])
    ELSE AbsentTree

\* dir/hooks after the extraction of a container into any directory: what
\* the directory held before, with the file of the entry "hooks/install".
ExpandTrees(archive) ==
    { t \in HookTrees :
        "hooks/install" \in archive.extra =>
            /\ t.kind = "dir"
            /\ \E i \in 1..Len(HookDirNames) :
                  HookDirNames[i] = "install" /\ t.entries[i].kind = "file" }

\* The containers expanded over every state of dir/hooks.
HookArchives ==
    { ar \in InventoryArchives :
        /\ ar.files["revision"] = "ok"
        /\ ar.files["config.yaml"] = "ok"
        /\ ar.extra \in {{}, {"hooks/install"}} }

\* The calls of ExpandTo: every opener with every failing step on a fresh
\* directory, and a readable container with every state of dir/hooks.
ExpandInputs ==
    { [a |-> [zopen |-> zo, hooks |-> {"install"}], fault |-> f,
       tree |-> ExtractedTree(zo.archive)] :
        zo \in ZipOpeners(InventoryArchives), f \in ExpandFaults }
    \cup UNION { { [a |-> [zopen |-> PathOpener(ar), hooks |-> h], fault |-> f, tree |-> t] :
                     h \in HookNameSets, f \in {"none", "chmod"}, t \in ExpandTrees(ar) } :
                 ar \in HookArchives }

\* The outcomes of Meta.Check for the two formats.
Checks == [{FormatV1, FormatV2} -> {NoErr, "check failed"}]

ReadCharmInputs ==
    { [stat |-> "err", dir |-> CHOOSE d \in ReadCharmDirResults : d.status = "err",
       zopen |-> PathOpener(NoZip.archive), check |-> [f \in {FormatV1, FormatV2} |-> NoErr]] }
    \cup { [stat |-> "dir", dir |-> d, zopen |-> PathOpener(NoZip.archive), check |-> c] :
             d \in ReadCharmDirResults, c \in Checks }
    \cup { [stat |-> "file", dir |-> CHOOSE d \in ReadCharmDirResults : d.status = "err",
            zopen |-> zo, check |-> c] :
             zo \in { z \in ZipOpeners(CharmArchives) : z.kind = "path" }, c \in Checks }

ResourceMetas ==
    [Name : {"", "eggs"}, Type : ResourceTypes, Path : SeqsUpTo({"a", "/"}, MaxPath),
     Comment : {"One line."}]

\* Container files opened and not closed by a call with trace tr.
Leaked(tr) == Count(tr, "open", "file") - Count(tr, "close", "file")

-----------------------------------------------------------------------------
(* The state machine.                                                      *)

Init ==
    /\ pc = "idle"
    /\ op = "none"
    /\ arg = [k |-> "none"]
    /\ ret = [k |-> "none"]
    /\ openFiles = 0

\* A caller hands a manifest document to ReadManifest.
CallReadManifest ==
    /\ pc = "idle"
    /\ \E doc \in ManifestDocs(MaxRawBases) :
          /\ arg' = [doc |-> doc]
          /\ ret' = ReadManifest(doc)
    /\ op' = "ReadManifest"
    /\ pc' = "done"
    /\ UNCHANGED openFiles

\* The call has returned (or panicked) and the caller goes on.
Return ==
    /\ pc = "done"
    /\ pc' = "idle"
    /\ op' = "none"
    /\ arg' = [k |-> "none"]
    /\ ret' = [k |-> "none"]
    /\ UNCHANGED openFiles

\* A caller reads a charm archive through one of the three constructors
\* (ReadCharmArchive by path, ReadCharmArchiveBytes and
\* ReadCharmArchiveFromReader over a reader).
CallReadCharmArchive ==
    /\ pc = "idle"
    /\ openFiles <= MaxLeaked
    /\ \E zo \in ZipOpeners(Archives) :
          /\ arg' = [zopen |-> zo]
          /\ ret' = readCharmArchive(zo)
          /\ openFiles' = openFiles + Leaked(ret'.trace)
    /\ op' = "readCharmArchive"
    /\ pc' = "done"

\* The format of a charm archive whose manifest was loaded from its source.
CallFormat ==
    /\ pc = "idle"
    /\ \E src \in ManifestSources :
          /\ arg' = [src |-> src, a |-> [NewCharmArchive EXCEPT !.manifest = LoadManifest(src)]]
          /\ ret' = [format |-> Format(arg'.a)]
    /\ op' = "Format"
    /\ pc' = "done"
    /\ UNCHANGED openFiles

\* A caller reads a charm from a path.
CallReadCharm ==
    /\ pc = "idle"
    /\ openFiles <= MaxLeaked
    /\ \E p \in ReadCharmInputs :
          /\ arg' = p
          /\ ret' = ReadCharm(p)
          /\ openFiles' = openFiles + Leaked(ret'.trace)
    /\ op' = "ReadCharm"
    /\ pc' = "done"

\* The inventory of a charm archive.
CallManifest ==
    /\ pc = "idle"
    /\ openFiles <= MaxLeaked
    /\ \E zo \in ZipOpeners(InventoryArchives) :
          /\ arg' = [a |-> [zopen |-> zo]]
          /\ ret' = CharmArchive_Manifest(arg'.a)
          /\ openFiles' = openFiles + Leaked(ret'.trace)
    /\ op' = "Manifest"
    /\ pc' = "done"

\* The expansion of a charm archive into a directory.
CallExpandTo ==
    /\ pc = "idle"
    /\ openFiles <= MaxLeaked
    /\ \E in \in ExpandInputs :
          /\ arg' = in
          /\ ret' = ExpandTo(in.a, in.fault, in.tree)
          /\ openFiles' = openFiles + Leaked(ret'.trace)
    /\ op' = "ExpandTo"
    /\ pc' = "done"

\* The series of a charm archive.
CallArchiveComputedSeries ==
    /\ pc = "idle"
    /\ \E a \in SeriesCharms :
          /\ arg' = [c |-> a]
          /\ ret' = CharmArchive_ComputedSeries(a)
    /\ op' = "CharmArchive.ComputedSeries"
    /\ pc' = "done"
    /\ UNCHANGED openFiles

\* The series of a charm, through the Charm interface.
CallComputedSeries ==
    /\ pc = "idle"
    /\ \E c \in SeriesCharms :
          /\ arg' = [c |-> c]
          /\ ret' = ComputedSeries(c)
    /\ op' = "ComputedSeries"
    /\ pc' = "done"
    /\ UNCHANGED openFiles

\* A requested series is reconciled with the supported ones.
CallSeriesForCharm ==
    /\ pc = "idle"
    /\ \E requested \in SeriesNames \cup {""},
          supported \in {NilSlice} \cup { Slice(s) : s \in SeqsUpTo(SeriesNames, MaxSeries) } :
          /\ arg' = [requestedSeries |-> requested, supportedSeries |-> supported]
          /\ ret' = SeriesForCharm(requested, supported)
    /\ op' = "SeriesForCharm"
    /\ pc' = "done"
    /\ UNCHANGED openFiles

\* A resource's metadata is validated.
CallValidate ==
    /\ pc = "idle"
    /\ \E meta \in ResourceMetas :
          /\ arg' = [meta |-> meta]
          /\ ret' = [err |-> Meta_Validate(meta)]
    /\ op' = "Validate"
    /\ pc' = "done"
    /\ UNCHANGED openFiles

Next ==
    \/ CallReadManifest
    \/ CallReadCharmArchive
    \/ CallFormat
    \/ CallReadCharm
    \/ CallManifest
    \/ CallExpandTo
    \/ CallArchiveComputedSeries
    \/ CallComputedSeries
    \/ CallSeriesForCharm
    \/ CallValidate
    \/ Return

Spec == Init /\ [][Next]_vars

\* Lines 100-175 of readCharmArchive run on a container that was opened
\* without error.  Line 88 stands between line 84 and this block; the block
\* is stepped here from the state line 84 leaves.
CallReadEntries ==
    /\ pc = "idle"
    /\ openFiles <= MaxLeaked
    /\ \E a \in EntryArchives, k \in {"path", "reader"} :
          /\ arg' = [zopen |-> [kind |-> k, fault |-> "none", archive |-> a]]
          /\ ret' = rcaEntries(openZip(arg'.zopen))
          /\ openFiles' = openFiles + Leaked(ret'.trace)
    /\ op' = "readEntries"
    /\ pc' = "done"

EntriesNext ==
    \/ CallReadEntries
    \/ Return

\* The block of the optional entries, called again and again.
EntriesSpec == Init /\ [][EntriesNext]_vars

-----------------------------------------------------------------------------
(* Properties.                                                             *)

Done(o) == pc = "done" /\ op = o

\* The entries other than metadata.yaml and manifest.yaml.
OptionalEntries == EntryNames \ {"metadata.yaml", "manifest.yaml"}

\* The field of the archive that holds the value of an optional entry.
FieldOf(b, e) ==
    CASE e = "config.yaml" -> b.config
      [] e = "metrics.yaml" -> b.metrics
      [] e = "actions.yaml" -> b.actions
      [] e = "revision" -> b.revision
      [] e = "lxd-profile.yaml" -> b.lxdProfile
      [] e = "version" -> b.version

\* The value an absent optional entry leaves in the archive: an empty
\* config, nil metrics, empty actions, revision 0, the default LXD profile
\* and the empty version.
DefaultOf(e) ==
    CASE e = "config.yaml" -> DefaultVal(e)
      [] e = "metrics.yaml" -> NilVal(e)
      [] e = "actions.yaml" -> DefaultVal(e)
      [] e = "revision" -> <<"default", e>>
      [] e = "lxd-profile.yaml" -> DefaultVal(e)
      [] e = "version" -> <<"default", e>>

Opened(tr, h) == Count(tr, "open", h)
Closed(tr, h) == Count(tr, "close", h)

\* C1: readCharmArchive on a container with a valid metadata.yaml does not
\* crash; without a manifest.yaml entry (and with every other entry absent
\* or valid) it returns an archive and no error; with a manifest.yaml entry
\* it opens and parses the manifest, stores the parsed manifest in the
\* archive it returns, and fails when the manifest does not parse.
C1_LegacyReadSucceeds ==
    (Done("readCharmArchive") /\ arg.zopen.fault = "none"
        /\ arg.zopen.archive.files["metadata.yaml"] = "ok") =>
      LET a == arg.zopen.archive
          m == a.files["manifest.yaml"]
      IN  /\ ret.status # "panic"
          /\ (m = "absent" /\ \A e \in OptionalEntries : a.files[e] \in {"absent", "ok"})
                => (ret.status = "ok" /\ ~ret.archive.isNil)
          /\ m \in {"ok", "bad"} => Opened(ret.trace, "manifest.yaml") = 1
          /\ (m \in {"ok", "bad"} /\ ReadManifest(a.mdoc).err # NoErr) => ret.status = "err"
          /\ (m = "ok" /\ ret.status = "ok")
                => ret.archive.manifest = ReadManifest(a.mdoc).manifest

\* C2: where the format of a charm archive is computed, it is V1 exactly
\* when the source had no manifest document and V2 exactly when it had
\* one, a manifest that declares zero bases included.
C2_FormatFollowsManifestPresence ==
    (Done("Format") /\ ret.format # "panic") =>
        /\ ret.format = FormatV1 <=> ~arg.src.present
        /\ ret.format = FormatV2 <=> arg.src.present

\* C3: ReadCharm returns a charm only together with the nil error: when
\* the reader or the check of the metadata fails, the charm returned is nil.
C3_ReadCharmAllOrNothing ==
    (Done("ReadCharm") /\ ret.status = "ok") =>
        (ret.err # NilErr => ret.charm.isNil)

\* C4: in a container with a valid metadata.yaml and no manifest.yaml, an
\* optional entry that is absent does not make readCharmArchive fail (with
\* the other optional entries absent or valid the read succeeds) and leaves
\* its default in the archive; an optional entry that is present and cannot
\* be opened or parsed makes readCharmArchive fail and return no archive.
C4_OptionalEntries ==
    (Done("readCharmArchive") /\ arg.zopen.fault = "none"
        /\ arg.zopen.archive.files["metadata.yaml"] = "ok"
        /\ arg.zopen.archive.files["manifest.yaml"] = "absent") =>
      LET a == arg.zopen.archive
      IN  \A e \in OptionalEntries :
            /\ (a.files[e] = "absent"
                  /\ \A o \in OptionalEntries : a.files[o] \in {"absent", "ok"})
                 => (ret.status = "ok" /\ FieldOf(ret.archive, e) = DefaultOf(e))
            /\ a.files[e] \in {"unopenable", "bad"}
                 => (ret.status = "err" /\ ret.archive.isNil)

\* C5: on a container without a metadata.yaml entry readCharmArchive fails
\* with the not-found error of metadata.yaml and returns no archive,
\* whatever the other entries are, and it opens no entry at all.
C5_MissingMetadataFails ==
    (Done("readCharmArchive") /\ arg.zopen.fault = "none"
        /\ arg.zopen.archive.files["metadata.yaml"] = "absent") =>
        /\ ret.status = "err"
        /\ isNoCharmArchiveFile(ret.err)
        /\ ret.err = NotFound("metadata.yaml")
        /\ ret.archive.isNil
        /\ \A n \in EntryNames : Opened(ret.trace, n) = 0

\* A container without metadata.yaml and with an invalid config.yaml and a
\* valid manifest.yaml was read, and the read failed.
C5_Witness ==
    /\ Done("readCharmArchive")
    /\ arg.zopen.fault = "none"
    /\ arg.zopen.archive.files["metadata.yaml"] = "absent"
    /\ arg.zopen.archive.files["config.yaml"] = "bad"
    /\ arg.zopen.archive.files["manifest.yaml"] = "ok"
    /\ ret.status = "err"

\* C6: ReadManifest on an empty document succeeds with a non-nil manifest
\* whose bases are nil; on a document with an empty bases list it succeeds
\* with a manifest whose bases are an empty non-nil list; and it never
\* returns a nil manifest together with a nil error.
C6_ReadManifestEmptyDocuments ==
    Done("ReadManifest") =>
        /\ arg.doc = EmptyDoc
             => (ret.err = NoErr /\ ~ret.manifest.isNil /\ ret.manifest.Bases.isNil)
        /\ arg.doc = BasesDoc(<<>>)
             => (ret.err = NoErr /\ ~ret.manifest.isNil
                 /\ ~ret.manifest.Bases.isNil /\ GoLen(ret.manifest.Bases) = 0)
        /\ ~(ret.manifest.isNil /\ ret.err = NoErr)

\* Handle h is opened at most once in tr, closed as often as it is opened,
\* and never closed before it is opened.
ClosedOnce(tr, h) ==
    /\ Opened(tr, h) <= 1
    /\ Closed(tr, h) = Opened(tr, h)
    /\ \A i \in 1..Len(tr) :
          tr[i] = Ev("close", h) => \E j \in 1..(i - 1) : tr[j] = Ev("open", h)

\* The opener of the call in progress.
CallOpener == IF op = "readCharmArchive" THEN arg.zopen ELSE arg.a.zopen

\* C7: when readCharmArchive, CharmArchive.Manifest or CharmArchive.ExpandTo
\* has returned (or panicked), the container handle it opened and the file
\* under it have each been closed exactly once, whatever the exit path;
\* when openZip fails after opening the file the file is closed; and no
\* container file is left open.
C7_ContainerHandlesClosed ==
    /\ openFiles = 0
    /\ (pc = "done" /\ op \in {"readCharmArchive", "Manifest", "ExpandTo"}) =>
        /\ ClosedOnce(ret.trace, "zip")
        /\ ClosedOnce(ret.trace, "file")
        /\ CallOpener.fault = "none" => Opened(ret.trace, "zip") = 1
        /\ (CallOpener.kind = "path" /\ CallOpener.fault # "open")
              => Opened(ret.trace, "file") = 1
        /\ (CallOpener.kind = "path" /\ CallOpener.fault \in {"stat", "zip"})
              => ret.trace = <<Ev("open", "file"), Ev("close", "file")>>

\* An expansion from a path failed while writing the revision file, after
\* the container was opened, and the container's file was closed.
C7_Witness ==
    /\ Done("ExpandTo")
    /\ arg.a.zopen.kind = "path"
    /\ arg.fault = "write"
    /\ ret.err # NoErr
    /\ Closed(ret.trace, "file") = 1

\* The index of the first base of bs whose canonical string is s.
FirstIndex(bs, s) == CHOOSE i \in 1..Len(bs) :
    /\ BaseString(bs[i]) = s
    /\ \A j \in 1..(i - 1) : BaseString(bs[j]) # s

\* C8: for a charm whose manifest has bases (V2) both ComputedSeries return
\* the canonical strings of the bases, each exactly once, in the order of
\* their first occurrences; for a charm without bases (V1) they return the
\* metadata's series list as it is.
C8_ComputedSeries ==
    (pc = "done" /\ op \in {"CharmArchive.ComputedSeries", "ComputedSeries"}) =>
      LET bs == arg.c.manifest.Bases.elems
          out == ret.series.elems
      IN  /\ ret.status = "ok"
          /\ IF Len(bs) > 0
             THEN /\ { out[i] : i \in 1..Len(out) } = { BaseString(bs[i]) : i \in 1..Len(bs) }
                  /\ \A i, j \in 1..Len(out) : i # j => out[i] # out[j]
                  /\ \A i, j \in 1..Len(out) :
                        i < j => FirstIndex(bs, out[i]) < FirstIndex(bs, out[j])
             ELSE ret.series = arg.c.meta.Series

\* The series of a charm with the bases ubuntu/stable, centos/edge,
\* ubuntu/stable were computed: ubuntu/stable, centos/edge.
C8_Witness ==
    /\ Done("ComputedSeries")
    /\ arg.c.manifest.Bases.elems =
          << [Name |-> "ubuntu", Channel |-> "stable"],
             [Name |-> "centos", Channel |-> "edge"],
             [Name |-> "ubuntu", Channel |-> "stable"] >>
    /\ ret.series.elems = << <<"ubuntu", "/", "stable">>, <<"centos", "/", "edge">> >>

\* C9: SeriesForCharm with no supported series returns the missing-series
\* error for an empty request and the request unchecked otherwise; with
\* supported series it returns the first of them for an empty request, the
\* request when it equals one of them, and otherwise the unsupported-series
\* error with the request and the whole supported list; so with supported
\* series a successful result is one of them.
C9_SeriesForCharm ==
    Done("SeriesForCharm") =>
      LET req == arg.requestedSeries
          sup == arg.supportedSeries.elems
          supSet == { sup[i] : i \in 1..Len(sup) }
      IN  /\ (sup = <<>> /\ req = "") => (ret.err = "errMissingSeries" /\ ret.series = "")
          /\ (sup = <<>> /\ req # "") => (ret.err = NoErr /\ ret.series = req)
          /\ (sup # <<>> /\ req = "") => (ret.err = NoErr /\ ret.series = sup[1])
          /\ (sup # <<>> /\ req # "" /\ req \in supSet)
                => (ret.err = NoErr /\ ret.series = req)
          /\ (sup # <<>> /\ req # "" /\ req \notin supSet)
                => /\ ret.err = "unsupportedSeriesError"
                   /\ ret.errRequested = req
                   /\ ret.errSupported = arg.supportedSeries
          /\ (sup # <<>> /\ ret.err = NoErr) => ret.series \in supSet

\* A request for a series the charm does not support was refused.
C9_Witness ==
    /\ Done("SeriesForCharm")
    /\ arg.requestedSeries = "xenial"
    /\ arg.supportedSeries.elems = <<"bionic", "focal">>
    /\ ret.err = "unsupportedSeriesError"

\* C10: Validate returns the error of the first check that fails, in the
\* order name, type not unknown, type recognised, path not empty and, for
\* the file type only, path without "/"; it returns nil exactly when every
\* check passes.
C10_ValidateFirstFailure ==
    Done("Validate") =>
      LET m == arg.meta
          nameOk == m.Name # ""
          typeSet == m.Type # TypeUnknown
          typeOk == m.Type \in {TypeFile, TypeContainerImage}
          pathOk == Len(m.Path) > 0
          slashOk == m.Type = TypeFile => \A i \in 1..Len(m.Path) : m.Path[i] # "/"
      IN  /\ ~nameOk => ret.err = "resource missing name"
          /\ (nameOk /\ ~typeSet) => ret.err = "resource missing type"
          /\ (nameOk /\ typeSet /\ ~typeOk) => ret.err = "invalid resource type"
          /\ (nameOk /\ typeSet /\ typeOk /\ ~pathOk) => ret.err = "resource missing filename"
          /\ (nameOk /\ typeSet /\ typeOk /\ pathOk /\ ~slashOk)
                => ret.err = "filename cannot contain /"
          /\ ret.err = NoErr <=> (nameOk /\ typeSet /\ typeOk /\ pathOk /\ slashOk)

\* An oci-image resource whose path contains "/" was accepted.
C10_Witness ==
    /\ Done("Validate")
    /\ arg.meta.Type = TypeContainerImage
    /\ arg.meta.Path = <<"a", "/">>
    /\ ret.err = NoErr

\* The permission bits other than the owner-execute bit.
OtherBits(mode) == [high |-> mode \div (2 * OwnerExec), low |-> mode % OwnerExec]

\* An entry of dir/hooks after the expansion, against what was extracted:
\* a regular file named like a declared hook is owner-executable and is
\* otherwise as extracted; any other entry, with the file inside it, is as
\* extracted.
HookFixed(name, old, new, hookNames) ==
    IF old.kind = "file" /\ name \in hookNames
    THEN /\ new.kind = "file"
         /\ HasOwnerExec(new.mode)
         /\ OtherBits(new.mode) = OtherBits(old.mode)
         /\ new.inner = old.inner
    ELSE new = old

\* C11: after ExpandTo returns without error, every regular file directly
\* inside dir/hooks whose base name is a declared hook name has the
\* owner-execute bit set with its other mode bits unchanged; files with
\* other names and every file inside a subdirectory of dir/hooks keep the
\* mode they were extracted with; and when dir/hooks is missing and no
\* other step fails, ExpandTo returns without error.
C11_HooksOwnerExecutable ==
    Done("ExpandTo") =>
        /\ ret.err = NoErr =>
              /\ ret.tree.kind = arg.tree.kind
              /\ \A i \in 1..Len(HookDirNames) :
                    HookFixed(HookDirNames[i], arg.tree.entries[i],
                              ret.tree.entries[i], arg.a.hooks)
        /\ (arg.tree.kind = "absent" /\ arg.a.zopen.fault = "none"
                /\ arg.fault \in {"none", "chmod"}) => ret.err = NoErr

\* An expansion that succeeded on a hooks directory holding a hook without
\* the owner-execute bit, a file that is no hook and a subdirectory named
\* like a declared hook: only the first was changed.
C11_Witness ==
    /\ Done("ExpandTo")
    /\ ret.err = NoErr
    /\ arg.a.hooks = {"install", "start"}
    /\ arg.tree = DirTree(<<FileNode(420), FileNode(420), DirNode(420)>>)
    /\ ret.tree = DirTree(<<FileNode(420), FileNode(484), DirNode(420)>>)

\* The events of the container handle and of the file under it.
ContainerHandles == {"zip", "file"}

\* Every reader of entry h opened in tr is closed later in tr, and the
\* container is not closed in between.
ReaderClosedInTime(tr, h) ==
    \A i \in 1..Len(tr) :
        tr[i] = Ev("open", h) =>
            \E j \in (i + 1)..Len(tr) :
                /\ tr[j] = Ev("close", h)
                /\ \A k \in i..j : ~(tr[k].ev = "close" /\ tr[k].h \in ContainerHandles)

====
